---- MODULE Spec2Model ----
(***************************************************************************)
(* Model of the proxy-ai HTTP server: the Express application of           *)
(* src/unnamed/part_000 (text generation + object-storage proxy) and the   *)
(* text-generation-only application of src/server.js.                      *)
(*                                                                         *)
(* Strings whose content the code inspects or builds (file names, MIME     *)
(* types, object names) are sequences of one-character strings.  A path    *)
(* is a sequence of segments; a literal segment is the one-element         *)
(* sequence holding its text.                                              *)
(***************************************************************************)
EXTENDS Integers, Sequences, FiniteSets, TLC

(***************************************************************************)
(* Bounds of the model.                                                    *)
(***************************************************************************)
\* Date.now() reads 0..MaxClock (milliseconds since the epoch).
MaxClock == 1
\* The bucket holds at most MaxObjects objects.
MaxObjects == 1

\* The requests that can be in flight at once.
Reqs == {1, 2}

(***************************************************************************)
(* Strings.                                                                *)
(***************************************************************************)
\* s[i..j], empty when i > j.
Sub(s, i, j) == [k \in 1..(j - i + 1) |-> s[i + k - 1]]

\* String.prototype.substring(start) for 0 <= start.
Substring(s, start) ==
  IF start >= Len(s) THEN <<>> ELSE Sub(s, start + 1, Len(s))

\* t occurs in s as a contiguous substring.
Contains(s, t) ==
  \E i \in 1..(Len(s) - Len(t) + 1) : Sub(s, i, i + Len(t) - 1) = t

Upper == {"A", "B", "C", "D", "E", "F", "G", "P", "R", "T", "X"}
LowerOf(c) ==
  CASE c = "A" -> "a" [] c = "B" -> "b" [] c = "C" -> "c" [] c = "D" -> "d"
    [] c = "E" -> "e" [] c = "F" -> "f" [] c = "G" -> "g" [] c = "P" -> "p"
    [] c = "R" -> "r" [] c = "T" -> "t" [] c = "X" -> "x" [] OTHER -> c

\* String.prototype.toLowerCase
toLowerCase(s) == [i \in 1..Len(s) |-> LowerOf(s[i])]

\* The positions of "." in s.
Dots(s) == {i \in 1..Len(s) : s[i] = "."}

\* s.split('.').pop(): the text after the last ".", the whole of s when it
\* has none.
SplitPop(s) ==
  IF Dots(s) = {} THEN s
  ELSE LET d == CHOOSE i \in Dots(s) : \A j \in Dots(s) : j <= i
       IN  Substring(s, d)

Digit == {"0", "1", "2", "3", "4", "5", "6", "7", "8", "9"}
DigitOf(n) ==
  CASE n = 0 -> "0" [] n = 1 -> "1" [] n = 2 -> "2" [] n = 3 -> "3"
    [] n = 4 -> "4" [] n = 5 -> "5" [] n = 6 -> "6" [] n = 7 -> "7"
    [] n = 8 -> "8" [] n = 9 -> "9"

\* Number -> decimal string, as a template literal formats an integer.
RECURSIVE ToDecimal(_)
ToDecimal(n) ==
  IF n < 10 THEN <<DigitOf(n)>>
  ELSE ToDecimal(n \div 10) \o <<DigitOf(n % 10)>>

(***************************************************************************)
(* JavaScript values of a JSON body: <<type, text>>.                       *)
(***************************************************************************)
Undefined == <<"undefined", "">>
JsString(s) == <<"string", s>>
JsNumber(s) == <<"number", s>>

\* ToBoolean, as `!x` and `x ? a : b` apply it.
Truthy(v) ==
  CASE v[1] = "undefined" -> FALSE
    [] v[1] = "null" -> FALSE
    [] v[1] = "string" -> v[2] # ""
    [] v[1] = "number" -> v[2] \notin {"0", "NaN"}
    [] v[1] = "boolean" -> v[2] = "true"
    [] OTHER -> TRUE

\* Destructuring default: `{ x = d } = obj` takes d only when x is undefined.
Default(v, d) == IF v = Undefined THEN d ELSE v

(***************************************************************************)
(* Time.                                                                   *)
(***************************************************************************)
HOUR_MS == 60 * 60 * 1000
DAY_MS == 24 * 60 * 60 * 1000

\* new Date(ms).toISOString(): the ISO-8601 text of the instant ms.
toISOString(ms) == <<"iso", ms>>

(***************************************************************************)
(* Upload: the multer configuration.                                       *)
(***************************************************************************)
fileSize == 10 * 1024 * 1024

allowedTypes ==
  { <<"j","p","e","g">>, <<"j","p","g">>, <<"p","n","g">>, <<"g","i","f">>,
    <<"p","d","f">>, <<"t","x","t">>, <<"d","o","c">>, <<"d","o","c","x">>,
    <<"x","l","s">>, <<"x","l","s","x">>, <<"c","s","v">>, <<"z","i","p">>,
    <<"r","a","r">> }

\* RegExp.prototype.test of the unanchored alternation /jpeg|jpg|...|rar/.
allowedTypesTest(s) == \E t \in allowedTypes : Contains(s, t)

\* fileFilter: TRUE when the callback accepts the file.
fileFilter(file) ==
  LET extname == allowedTypesTest(toLowerCase(file.originalname))
      mimetype == allowedTypesTest(file.mimetype)
  IN  mimetype /\ extname

\* upload.single('file'): "none" (no file part, req.file stays undefined),
\* "file" (req.file is set), or the error passed to next(err).
UploadSingle(files) ==
  IF files = <<>> THEN "none"
  ELSE IF ~fileFilter(files[1]) THEN "Invalid file type"
  ELSE IF files[1].size > fileSize THEN "File too large"
  ELSE "file"

\* Math.random() is a number in [0, 1), given by its base-36 fraction digits
\* (<<>> is 0); Number.prototype.toString(36) of it.
toString36(r) == IF r = <<>> THEN <<"0">> ELSE <<"0", ".">> \o r

\* `${timestamp}-${Math.random().toString(36).substring(2)}.${fileExtension}`
GenFileName(timestamp, r, originalName) ==
  ToDecimal(timestamp) \o <<"-">> \o Substring(toString36(r), 2)
    \o <<".">> \o SplitPop(originalName)

(***************************************************************************)
(* Inputs.                                                                 *)
(***************************************************************************)
Randoms == { <<>>, <<"i">> }

PDF == <<"a","p","p","l","i","c","a","t","i","o","n","/","p","d","f">>
TEXT_PLAIN == <<"t","e","x","t","/","p","l","a","i","n">>

File(n, m, sz) == [originalname |-> n, mimetype |-> m, size |-> sz]

Files ==
  { File(<<"r","e","p","o","r","t",".","p","d","f">>, PDF, 500000),
    File(<<"p","d","f",".","e","x","e">>, PDF, 1000),
    File(<<"R",".","P","D","F">>, PDF, fileSize + 1),
    File(<<"n","o","t","e","s",".","t","x","t">>, TEXT_PLAIN, 1000),
    File(<<"r","u","n",".","e","x","e">>, PDF, 1000) }

\* Environment values are strings or absent; "0" is a string a number-minded
\* test would call empty.
EnvValues == { Undefined, JsString(""), JsString("0"), JsString("key") }

Prompts == { Undefined, JsString(""), JsString("hi") }
Models == { Undefined, JsString("command-light") }
MaxTokens == { Undefined, JsNumber("100") }

\* An object of the bucket that this server did not upload.
Legacy == <<"l","e","g","a","c","y">>
\* A name no upload produces.
NoSuchName == <<"n","o","n","e",".","p","d","f">>

GenNames ==
  { GenFileName(t, r, f.originalname) :
      t \in 0..MaxClock, r \in Randoms, f \in {g \in Files : UploadSingle(<<g>>) = "file"} }

ParamNames == GenNames \cup {Legacy, NoSuchName}

(***************************************************************************)
(* Routing.                                                                *)
(***************************************************************************)
Param == <<":fileName">>
Root == <<>>
P2(a, b) == << <<a>>, <<b>> >>
P3(a, b, c) == << <<a>>, <<b>>, <<c>> >>

Route(m, p, h) == [method |-> m, pattern |-> p, handler |-> h]

\* app.get / app.post / app.delete of src/server.js, in registration order.
RoutesBasic ==
  << Route("GET", Root, "root"),
     Route("GET", P2("api", "health"), "health"),
     Route("POST", P2("api", "data"), "data"),
     Route("POST", P3("api", "cohere", "inference"), "inference"),
     Route("GET", P2("api", "models"), "models"),
     Route("GET", P2("api", "docs"), "docs") >>

\* The same of src/unnamed/part_000.
RoutesFull ==
  << Route("GET", Root, "root"),
     Route("GET", P2("api", "health"), "health"),
     Route("POST", P2("api", "data"), "data"),
     Route("POST", P3("api", "cohere", "inference"), "inference"),
     Route("GET", P2("api", "models"), "models"),
     Route("POST", P3("api", "gcs", "upload"), "upload"),
     Route("GET", P3("api", "gcs", "download") \o <<Param>>, "download"),
     Route("GET", P3("api", "gcs", "files"), "files"),
     Route("DELETE", P3("api", "gcs", "files") \o <<Param>>, "delete"),
     Route("GET", P3("api", "gcs", "files") \o <<Param, <<"metadata">> >>, "metadata"),
     Route("GET", P2("api", "docs"), "docs") >>

Programs == {"server.js", "part_000"}
Routes(prog) == IF prog = "server.js" THEN RoutesBasic ELSE RoutesFull

\* available_endpoints of the 404 handler: 'METHOD /path' as <<method, pattern>>.
EndpointsBasic ==
  << <<"GET", Root>>,
     <<"GET", P2("api", "health")>>,
     <<"GET", P2("api", "models")>>,
     <<"GET", P2("api", "docs")>>,
     <<"POST", P2("api", "data")>>,
     <<"POST", P3("api", "cohere", "inference")>> >>

EndpointsFull ==
  EndpointsBasic \o
  << <<"POST", P3("api", "gcs", "upload")>>,
     <<"GET", P3("api", "gcs", "download") \o <<Param>> >>,
     <<"GET", P3("api", "gcs", "files")>>,
     <<"DELETE", P3("api", "gcs", "files") \o <<Param>> >>,
     <<"GET", P3("api", "gcs", "files") \o <<Param, <<"metadata">> >> >> >>

available_endpoints(prog) ==
  IF prog = "server.js" THEN EndpointsBasic ELSE EndpointsFull

\* A path matches a pattern segment by segment; :fileName matches any segment.
Match(pattern, path) ==
  /\ Len(pattern) = Len(path)
  /\ \A i \in 1..Len(pattern) : pattern[i] = Param \/ pattern[i] = path[i]

Matching(prog, method, path) ==
  {i \in 1..Len(Routes(prog)) :
     Routes(prog)[i].method = method /\ Match(Routes(prog)[i].pattern, path)}

\* The handler Express runs: the first matching route, else the app.use('*')
\* handler.
Dispatch(prog, method, path) ==
  LET M == Matching(prog, method, path)
  IN  IF M = {} THEN "notFound"
      ELSE Routes(prog)[CHOOSE i \in M : \A j \in M : i <= j].handler

\* req.params.fileName of a path that matched a :fileName pattern.
ParamOf(path) == path[4]

\* The requests clients send: <<method, path>>.
Targets ==
  { <<"GET", Root>>, <<"GET", P2("api", "health")>>, <<"POST", P2("api", "data")>>,
    <<"GET", P2("api", "models")>>, <<"GET", P2("api", "docs")>>,
    <<"POST", P3("api", "cohere", "inference")>>,
    <<"POST", P3("api", "gcs", "upload")>>, <<"GET", P3("api", "gcs", "files")>>,
    <<"GET", P2("api", "nonexistent")>>, <<"PUT", P2("api", "data")>> }
  \cup { <<"GET", P3("api", "gcs", "download") \o <<n>> >> : n \in ParamNames }
  \cup { <<"DELETE", P3("api", "gcs", "files") \o <<n>> >> : n \in ParamNames }
  \cup { <<"GET", P3("api", "gcs", "files") \o <<n, <<"metadata">> >> >> : n \in ParamNames }

Handlers ==
  { "root", "health", "data", "inference", "models", "upload", "download",
    "files", "delete", "metadata", "docs", "notFound" }

\* The targets each handler of each program serves.
HandledBy ==
  [prog \in Programs |->
     [h \in Handlers |-> {t \in Targets : Dispatch(prog, t[1], t[2]) = h}]]

(***************************************************************************)
(* State.                                                                  *)
(***************************************************************************)
VARIABLES
  program,   \* the file that was started: "server.js" or "part_000"
  env,       \* process.env
  clock,     \* what Date.now() reads
  bucket,    \* the objects of the configured bucket: name -> object
  slot,      \* each request in flight: where its handler awaits, its locals
  sent,      \* the response being written, if any: <<>> or <<response>>;
             \* writing it is one step of the event loop, nothing else runs
  deleted    \* history: the name of the latest successful delete, until an
             \* upload writes that name again: <<>> or <<name>>

vars == <<program, env, clock, bucket, slot, sent, deleted>>

NoBody ==
  [prompt |-> Undefined, model |-> Undefined, max_tokens |-> Undefined,
   data |-> Undefined]
Request(t, b, f) == [method |-> t[1], path |-> t[2], body |-> b, files |-> f]

IdleSlot ==
  [pc |-> "idle", req |-> Request(<<"GET", Root>>, NoBody, <<>>),
   fileName |-> <<>>, timestamp |-> 0, expires |-> 0, log |-> <<>>,
   follows |-> FALSE]

\* One call of a vendor client: the operation, the object it names, its
\* numeric argument (the expiry of a signed link) and how it ended.
Call(op, name, arg, result) ==
  [op |-> op, name |-> name, arg |-> arg, result |-> result]

\* The storage service stamps objects with its own clock, which the server
\* never reads: one opaque value.
StorageTime == <<"iso", "storage-time">>

Object(name, size, contentType, custom) ==
  [name |-> name, size |-> size, contentType |-> contentType,
   timeCreated |-> StorageTime, updated |-> StorageTime,
   metadata |-> custom]

LegacyBucket == [n \in {Legacy} |-> Object(Legacy, 7, TEXT_PLAIN, <<>>)]

Put(b, name, obj) == [n \in DOMAIN b \cup {name} |-> IF n = name THEN obj ELSE b[n]]
Remove(b, name) == [n \in DOMAIN b \ {name} |-> b[n]]

Init ==
  /\ program \in Programs
  /\ env \in [COHERE_API_KEY : EnvValues,
              GOOGLE_CLOUD_BUCKET_NAME : {Undefined, JsString("bucket")}]
  /\ clock = 0
  /\ bucket = LegacyBucket
  /\ slot = [r \in Reqs |-> IdleSlot]
  /\ sent = <<>>
  /\ deleted = <<>>

\* The request for `name` arrives after a successful delete of it.
Follows(name) == deleted = <<name>>

\* The object names requests ask for: the objects of the bucket, the one
\* deleted last, and one that never existed.
Asked == DOMAIN bucket \cup {deleted[i] : i \in DOMAIN deleted} \cup {NoSuchName}

\* A handler starts on a request when the slot is free.
Idle(r) == sent = <<>> /\ slot[r].pc = "idle"
\* The handler of r resumes from the await of `pc`.
At(r, pc) == sent = <<>> /\ slot[r].pc = pc

\* res.status(status).json(body): the response is written and the handler ends.
Respond(r, req, log, follows, status, body) ==
  /\ sent' = << [req |-> req, log |-> log, follows |-> follows,
                 status |-> status, body |-> body] >>
  /\ slot' = [slot EXCEPT ![r] = IdleSlot]

\* The handler of r suspends at an await.
Await(r, s) == slot' = [slot EXCEPT ![r] = s] /\ sent' = sent

Now == toISOString(clock)

\* The catch block of a handler, and the error-handling middleware.
ErrorBody(error, message) ==
  [error |-> error, message |-> message, timestamp |-> Now]

(***************************************************************************)
(* Handlers that answer at once.                                           *)
(***************************************************************************)
Configured(v) == IF Truthy(v) THEN "configured" ELSE "not configured"

Services ==
  IF program = "server.js"
  THEN [cohere |-> Configured(env.COHERE_API_KEY)]
  ELSE [cohere |-> Configured(env.COHERE_API_KEY),
        gcs |-> Configured(env.GOOGLE_CLOUD_BUCKET_NAME)]

GetRoot(r) ==
  /\ Idle(r)
  /\ \E t \in HandledBy[program]["root"] :
       Respond(r, Request(t, NoBody, <<>>), <<>>, FALSE, 200,
               [message |-> "Proxy AI Inference Server is running!",
                version |-> "1.0.0", timestamp |-> Now])
  /\ UNCHANGED <<program, env, clock, bucket, deleted>>

GetHealth(r) ==
  /\ Idle(r)
  /\ \E t \in HandledBy[program]["health"] :
       Respond(r, Request(t, NoBody, <<>>), <<>>, FALSE, 200,
               [status |-> "OK", timestamp |-> Now, services |-> Services])
  /\ UNCHANGED <<program, env, clock, bucket, deleted>>

PostData(r) ==
  /\ Idle(r)
  /\ \E t \in HandledBy[program]["data"], d \in {JsString("Hello World")} :
       Respond(r, Request(t, [NoBody EXCEPT !.data = d], <<>>), <<>>, FALSE, 200,
               [message |-> "Data received successfully", receivedData |-> d,
                timestamp |-> Now])
  /\ UNCHANGED <<program, env, clock, bucket, deleted>>

GetModels(r) ==
  /\ Idle(r)
  /\ \E t \in HandledBy[program]["models"] :
       Respond(r, Request(t, NoBody, <<>>), <<>>, FALSE, 200,
               [cohere |-> [endpoint |-> "/api/cohere/inference"], timestamp |-> Now])
  /\ UNCHANGED <<program, env, clock, bucket, deleted>>

GetDocs(r) ==
  /\ Idle(r)
  /\ \E t \in HandledBy[program]["docs"] :
       Respond(r, Request(t, NoBody, <<>>), <<>>, FALSE, 200,
               [endpoints |-> available_endpoints(program), timestamp |-> Now])
  /\ UNCHANGED <<program, env, clock, bucket, deleted>>

\* app.use('*'): no route matched.
NotFound(r) ==
  /\ Idle(r)
  /\ \E t \in HandledBy[program]["notFound"] :
       Respond(r, Request(t, NoBody, <<>>), <<>>, FALSE, 404,
               [error |-> "Route not found", path |-> t[2],
                available_endpoints |-> available_endpoints(program),
                timestamp |-> Now])
  /\ UNCHANGED <<program, env, clock, bucket, deleted>>

(***************************************************************************)
(* POST /api/cohere/inference                                              *)
(***************************************************************************)
\* Mutant of MissingPrompt: only an absent prompt counts as missing.
MissingPrompt_UndefinedOnly(prompt) == prompt = Undefined

\* if (!prompt)
MissingPrompt(prompt) == ~Truthy(prompt)

\* Mutant of KeyUnset: only an absent credential counts as unset.
KeyUnset_AbsentOnly == env.COHERE_API_KEY = Undefined

\* if (!process.env.COHERE_API_KEY)
KeyUnset == ~Truthy(env.COHERE_API_KEY)

PostInference(r) ==
  /\ Idle(r)
  /\ \E t \in HandledBy[program]["inference"],
        prompt \in Prompts, model \in Models, max_tokens \in MaxTokens :
       LET req == Request(t, [NoBody EXCEPT !.prompt = prompt, !.model = model,
                                           !.max_tokens = max_tokens], <<>>)
       IN  IF MissingPrompt(prompt)
           THEN Respond(r, req, <<>>, FALSE, 400, [error |-> "Prompt is required"])
           ELSE IF KeyUnset
           THEN Respond(r, req, <<>>, FALSE, 500,
                        [error |-> "Cohere API key not configured"])
           ELSE Await(r, [IdleSlot EXCEPT !.pc = "inference.generate", !.req = req])
  /\ UNCHANGED <<program, env, clock, bucket, deleted>>

\* cohere.generate settles: it resolves, or it rejects and the catch answers.
GenerateReturns(r) ==
  /\ At(r, "inference.generate")
  /\ \E outcome \in {"ok", "raise"} :
       LET s == slot[r]
           log == Append(s.log, Call("generate", <<>>, 0, outcome))
       IN  IF outcome = "ok"
           THEN Respond(r, s.req, log, FALSE, 200,
                        [success |-> TRUE, response |-> "text",
                         model |-> Default(s.req.body.model, JsString("command")),
                         timestamp |-> Now])
           ELSE Respond(r, s.req, log, FALSE, 500,
                        ErrorBody("Cohere inference failed", "upstream error"))
  /\ UNCHANGED <<program, env, clock, bucket, deleted>>

(***************************************************************************)
(* POST /api/gcs/upload                                                    *)
(***************************************************************************)
\* Mutant of BucketUnset: the bucket name is never checked.
BucketUnset_Never == FALSE

\* if (!process.env.GOOGLE_CLOUD_BUCKET_NAME)
BucketUnset == ~Truthy(env.GOOGLE_CLOUD_BUCKET_NAME)
NotConfigured == [error |-> "Google Cloud Storage bucket not configured"]

\* A save of `name` clears "follows a delete of name" in every other request.
Recreated(q, name) ==
  IF slot[q].fileName = name THEN [slot[q] EXCEPT !.follows = FALSE] ELSE slot[q]

PostUpload(r) ==
  /\ Idle(r)
  /\ \E t \in HandledBy[program]["upload"],
        files \in {<<>>} \cup {<<f>> : f \in Files}, rnd \in Randoms :
       LET req == Request(t, NoBody, files)
           u == UploadSingle(files)
       IN  IF u \notin {"none", "file"}
           THEN Respond(r, req, <<>>, FALSE, 500, ErrorBody("Something went wrong!", u))
           ELSE IF u = "none"
           THEN Respond(r, req, <<>>, FALSE, 400, [error |-> "No file uploaded"])
           ELSE IF BucketUnset
           THEN Respond(r, req, <<>>, FALSE, 500, NotConfigured)
           ELSE Await(r, [IdleSlot EXCEPT
                            !.pc = "upload.save", !.req = req, !.timestamp = clock,
                            !.fileName = GenFileName(clock, rnd, files[1].originalname)])
  /\ UNCHANGED <<program, env, clock, bucket, deleted>>

\* file.save settles.  The write succeeds only while the bucket has room.
SaveReturns(r) ==
  /\ At(r, "upload.save")
  /\ LET s == slot[r]
         f == s.req.files[1]
         obj == Object(s.fileName, f.size, f.mimetype,
                       << [originalName |-> f.originalname,
                           uploadedAt |-> toISOString(s.timestamp)] >>)
     IN  \/ /\ s.fileName \in DOMAIN bucket \/ Cardinality(DOMAIN bucket) < MaxObjects
            /\ bucket' = Put(bucket, s.fileName, obj)
            /\ deleted' = IF deleted = <<s.fileName>> THEN <<>> ELSE deleted
            /\ slot' = [q \in Reqs |->
                          IF q = r
                          THEN [s EXCEPT !.pc = "upload.sign",
                                         !.expires = clock + DAY_MS,
                                         !.log = Append(s.log, Call("save", s.fileName, 0, "ok"))]
                          ELSE Recreated(q, s.fileName)]
            /\ sent' = sent
         \/ /\ Respond(r, s.req, Append(s.log, Call("save", s.fileName, 0, "raise")),
                       FALSE, 500, ErrorBody("File upload failed", "upstream error"))
            /\ UNCHANGED <<bucket, deleted>>
  /\ UNCHANGED <<program, env, clock>>

\* file.getSignedUrl of the upload settles.
UploadSignReturns(r) ==
  /\ At(r, "upload.sign")
  /\ \E outcome \in {"ok", "raise"} :
       LET s == slot[r]
           f == s.req.files[1]
           log == Append(s.log, Call("getSignedUrl", s.fileName, s.expires, outcome))
       IN  IF outcome = "ok"
           THEN Respond(r, s.req, log, FALSE, 200,
                        [success |-> TRUE, fileName |-> s.fileName,
                         originalName |-> f.originalname, size |-> f.size,
                         mimeType |-> f.mimetype,
                         signedUrl |-> <<"signed", s.fileName, s.expires>>,
                         expiresAt |-> toISOString(clock + DAY_MS),
                         timestamp |-> Now])
           ELSE Respond(r, s.req, log, FALSE, 500,
                        ErrorBody("File upload failed", "upstream error"))
  /\ UNCHANGED <<program, env, clock, bucket, deleted>>

(***************************************************************************)
(* GET /api/gcs/download/:fileName                                         *)
(***************************************************************************)
\* Mutant of DownloadMissing: the probe's answer is ignored.
DownloadMissing_Never(exists) == FALSE

\* if (!exists) of the download handler
DownloadMissing(exists) == ~exists

GetDownload(r) ==
  /\ Idle(r)
  /\ \E t \in {u \in HandledBy[program]["download"] : ParamOf(u[2]) \in Asked} :
       LET req == Request(t, NoBody, <<>>)
           fileName == ParamOf(t[2])
       IN  IF BucketUnset
           THEN Respond(r, req, <<>>, Follows(fileName), 500, NotConfigured)
           ELSE Await(r, [IdleSlot EXCEPT
                            !.pc = "download.exists", !.req = req,
                            !.fileName = fileName, !.follows = Follows(fileName)])
  /\ UNCHANGED <<program, env, clock, bucket, deleted>>

\* file.exists of the download settles.
DownloadExistsReturns(r) ==
  /\ At(r, "download.exists")
  /\ \E outcome \in {"ok", "raise"} :
       LET s == slot[r]
           exists == s.fileName \in DOMAIN bucket
           result == IF outcome = "raise" THEN "raise"
                     ELSE IF exists THEN "true" ELSE "false"
           log == Append(s.log, Call("exists", s.fileName, 0, result))
       IN  IF outcome = "raise"
           THEN Respond(r, s.req, log, s.follows, 500,
                        ErrorBody("File download failed", "upstream error"))
           ELSE IF DownloadMissing(exists)
           THEN Respond(r, s.req, log, s.follows, 404, [error |-> "File not found"])
           ELSE Await(r, [s EXCEPT !.pc = "download.sign", !.log = log,
                                   !.expires = clock + HOUR_MS])
  /\ UNCHANGED <<program, env, clock, bucket, deleted>>

\* file.getSignedUrl of the download settles.
DownloadSignReturns(r) ==
  /\ At(r, "download.sign")
  /\ \E outcome \in {"ok", "raise"} :
       LET s == slot[r]
           log == Append(s.log, Call("getSignedUrl", s.fileName, s.expires, outcome))
       IN  IF outcome = "ok"
           THEN Respond(r, s.req, log, s.follows, 200,
                        [success |-> TRUE, fileName |-> s.fileName,
                         downloadUrl |-> <<"signed", s.fileName, s.expires>>,
                         expiresAt |-> toISOString(clock + HOUR_MS),
                         timestamp |-> Now])
           ELSE Respond(r, s.req, log, s.follows, 500,
                        ErrorBody("File download failed", "upstream error"))
  /\ UNCHANGED <<program, env, clock, bucket, deleted>>

(***************************************************************************)
(* GET /api/gcs/files                                                      *)
(***************************************************************************)
\* Mutant of OriginalName: the original-name metadata is ignored.
OriginalName_NameOnly(obj) == obj.name

\* metadata.metadata?.originalName || name
OriginalName(obj) ==
  IF obj.metadata # <<>> /\ obj.metadata[1].originalName # <<>>
  THEN obj.metadata[1].originalName
  ELSE obj.name

Descriptor(obj) ==
  [name |-> obj.name, size |-> obj.size, contentType |-> obj.contentType,
   timeCreated |-> obj.timeCreated, updated |-> obj.updated,
   originalName |-> OriginalName(obj)]

\* The array bucket.getFiles() resolves to: every object once.
RECURSIVE FilesOf(_)
FilesOf(b) ==
  IF DOMAIN b = {} THEN <<>>
  ELSE LET n == CHOOSE n \in DOMAIN b : TRUE
       IN  <<b[n]>> \o FilesOf(Remove(b, n))

GetFiles(r) ==
  /\ Idle(r)
  /\ \E t \in HandledBy[program]["files"] :
       LET req == Request(t, NoBody, <<>>)
       IN  IF BucketUnset
           THEN Respond(r, req, <<>>, FALSE, 500, NotConfigured)
           ELSE Await(r, [IdleSlot EXCEPT !.pc = "files.getFiles", !.req = req])
  /\ UNCHANGED <<program, env, clock, bucket, deleted>>

\* bucket.getFiles settles.
GetFilesReturns(r) ==
  /\ At(r, "files.getFiles")
  /\ \E outcome \in {"ok", "raise"} :
       LET s == slot[r]
           log == Append(s.log, Call("getFiles", <<>>, 0, outcome))
           files == FilesOf(bucket)
           fileList == [i \in 1..Len(files) |-> Descriptor(files[i])]
       IN  IF outcome = "ok"
           THEN Respond(r, s.req, log, FALSE, 200,
                        [success |-> TRUE, files |-> fileList,
                         count |-> Len(fileList), timestamp |-> Now])
           ELSE Respond(r, s.req, log, FALSE, 500,
                        ErrorBody("Failed to list files", "upstream error"))
  /\ UNCHANGED <<program, env, clock, bucket, deleted>>

(***************************************************************************)
(* DELETE /api/gcs/files/:fileName                                         *)
(***************************************************************************)
\* Mutant of DeleteMissing: the probe's answer is ignored.
DeleteMissing_Never(exists) == FALSE

\* if (!exists) of the delete handler
DeleteMissing(exists) == ~exists

DeleteFile(r) ==
  /\ Idle(r)
  /\ \E t \in {u \in HandledBy[program]["delete"] : ParamOf(u[2]) \in Asked} :
       LET req == Request(t, NoBody, <<>>)
           fileName == ParamOf(t[2])
       IN  IF BucketUnset
           THEN Respond(r, req, <<>>, Follows(fileName), 500, NotConfigured)
           ELSE Await(r, [IdleSlot EXCEPT
                            !.pc = "delete.exists", !.req = req,
                            !.fileName = fileName, !.follows = Follows(fileName)])
  /\ UNCHANGED <<program, env, clock, bucket, deleted>>

\* file.exists of the delete settles.
DeleteExistsReturns(r) ==
  /\ At(r, "delete.exists")
  /\ \E outcome \in {"ok", "raise"} :
       LET s == slot[r]
           exists == s.fileName \in DOMAIN bucket
           result == IF outcome = "raise" THEN "raise"
                     ELSE IF exists THEN "true" ELSE "false"
           log == Append(s.log, Call("exists", s.fileName, 0, result))
       IN  IF outcome = "raise"
           THEN Respond(r, s.req, log, s.follows, 500,
                        ErrorBody("File deletion failed", "upstream error"))
           ELSE IF DeleteMissing(exists)
           THEN Respond(r, s.req, log, s.follows, 404, [error |-> "File not found"])
           ELSE Await(r, [s EXCEPT !.pc = "delete.delete", !.log = log])
  /\ UNCHANGED <<program, env, clock, bucket, deleted>>

\* file.delete settles: the storage service rejects the delete of an object
\* that is not there.
DeleteReturns(r) ==
  /\ At(r, "delete.delete")
  /\ LET s == slot[r]
     IN  \/ /\ s.fileName \in DOMAIN bucket
            /\ bucket' = Remove(bucket, s.fileName)
            /\ deleted' = <<s.fileName>>
            /\ Respond(r, s.req, Append(s.log, Call("delete", s.fileName, 0, "ok")),
                       s.follows, 200,
                       [success |-> TRUE, message |-> "File deleted successfully",
                        fileName |-> s.fileName, timestamp |-> Now])
         \/ /\ Respond(r, s.req, Append(s.log, Call("delete", s.fileName, 0, "raise")),
                       s.follows, 500,
                       ErrorBody("File deletion failed",
                                 IF s.fileName \in DOMAIN bucket
                                 THEN "upstream error" ELSE "No such object"))
            /\ UNCHANGED <<bucket, deleted>>
  /\ UNCHANGED <<program, env, clock>>

(***************************************************************************)
(* GET /api/gcs/files/:fileName/metadata                                   *)
(***************************************************************************)
GetMetadata(r) ==
  /\ Idle(r)
  /\ \E t \in {u \in HandledBy[program]["metadata"] : ParamOf(u[2]) \in Asked} :
       LET req == Request(t, NoBody, <<>>)
           fileName == ParamOf(t[2])
       IN  IF BucketUnset
           THEN Respond(r, req, <<>>, Follows(fileName), 500, NotConfigured)
           ELSE Await(r, [IdleSlot EXCEPT
                            !.pc = "metadata.getMetadata", !.req = req,
                            !.fileName = fileName, !.follows = Follows(fileName)])
  /\ UNCHANGED <<program, env, clock, bucket, deleted>>

\* file.getMetadata settles: the storage service rejects it for an object
\* that is not there.
MetadataReturns(r) ==
  /\ At(r, "metadata.getMetadata")
  /\ LET s == slot[r]
         exists == s.fileName \in DOMAIN bucket
     IN  \/ /\ exists
            /\ Respond(r, s.req, Append(s.log, Call("getMetadata", s.fileName, 0, "ok")),
                       s.follows, 200,
                       [success |-> TRUE, fileName |-> s.fileName,
                        metadata |-> Descriptor(bucket[s.fileName])
                                     @@ [customMetadata |-> bucket[s.fileName].metadata],
                        timestamp |-> Now])
         \/ Respond(r, s.req, Append(s.log, Call("getMetadata", s.fileName, 0, "raise")),
                    s.follows, 500,
                    ErrorBody("Failed to get file metadata",
                              IF exists THEN "upstream error" ELSE "No such object"))
  /\ UNCHANGED <<program, env, clock, bucket, deleted>>

(***************************************************************************)
(* The environment of the handlers.                                        *)
(***************************************************************************)
\* Time passes.
Tick ==
  /\ sent = <<>>
  /\ clock < MaxClock
  /\ clock' = clock + 1
  /\ UNCHANGED <<program, env, bucket, slot, sent, deleted>>

\* The response has been written to the client.
ResEnd ==
  /\ sent # <<>>
  /\ sent' = <<>>
  /\ UNCHANGED <<program, env, clock, bucket, slot, deleted>>

\* What the handlers of request r can do.
Handle(r) ==
  \/ GetRoot(r) \/ GetHealth(r) \/ PostData(r) \/ GetModels(r) \/ GetDocs(r)
  \/ NotFound(r)
  \/ PostInference(r) \/ GenerateReturns(r)
  \/ PostUpload(r) \/ SaveReturns(r) \/ UploadSignReturns(r)
  \/ GetDownload(r) \/ DownloadExistsReturns(r) \/ DownloadSignReturns(r)
  \/ GetFiles(r) \/ GetFilesReturns(r)
  \/ DeleteFile(r) \/ DeleteExistsReturns(r) \/ DeleteReturns(r)
  \/ GetMetadata(r) \/ MetadataReturns(r)

\* What the handlers of the storage routes can do for request r.
HandleStorage(r) ==
  \/ PostUpload(r) \/ SaveReturns(r) \/ UploadSignReturns(r)
  \/ GetDownload(r) \/ DownloadExistsReturns(r) \/ DownloadSignReturns(r)
  \/ GetFiles(r) \/ GetFilesReturns(r)
  \/ DeleteFile(r) \/ DeleteExistsReturns(r) \/ DeleteReturns(r)
  \/ GetMetadata(r) \/ MetadataReturns(r)

\* Every route of both programs in every configuration, the requests served
\* one after the other.
Next == Tick \/ ResEnd \/ Handle(1)

Spec == Init /\ [][Next]_vars

\* The storage routes of the configured part_000 with the requests of Reqs
\* in flight together, their awaits interleaved in every order.  The clock
\* stands still here: it feeds only the generated names, the expiry times and
\* the timestamps, which Spec covers.
InitStorage ==
  /\ Init
  /\ program = "part_000"
  /\ env = [COHERE_API_KEY |-> JsString("key"),
            GOOGLE_CLOUD_BUCKET_NAME |-> JsString("bucket")]

NextStorage == ResEnd \/ \E r \in Reqs : HandleStorage(r)

SpecStorage == InitStorage /\ [][NextStorage]_vars

(***************************************************************************)
(* Properties.  They read the response being written (sent) with the       *)
(* request it answers and the vendor calls that request made.              *)
(***************************************************************************)
Responding == sent # <<>>
Resp == sent[1]
\* The handler that answered.
HandlerOf(resp) == Dispatch(program, resp.req.method, resp.req.path)
Answers(h) == Responding /\ HandlerOf(Resp) = h
\* The calls of `op` among the vendor calls of a response.
CallsOf(resp, op) == {i \in DOMAIN resp.log : resp.log[i].op = op}

\* C1: a POST /api/cohere/inference whose body has no prompt or an empty
\* prompt is answered 400 "Prompt is required" and never reaches
\* cohere.generate, whatever the other body fields and the credential are.
C1_MissingPromptIs400 ==
  /\ Answers("inference") /\ Resp.req.body.prompt \in {Undefined, JsString("")}
       => /\ Resp.status = 400
          /\ Resp.body.error = "Prompt is required"
          /\ Resp.log = <<>>
  /\ \A r \in Reqs :
       slot[r].pc = "inference.generate"
         => slot[r].req.body.prompt \notin {Undefined, JsString("")}

\* C1 witness: an empty prompt, with a model and max_tokens given and the
\* credential set, answered 400.
C1_Witness ==
  /\ Answers("inference")
  /\ Resp.req.body.prompt = JsString("")
  /\ Resp.req.body.model # Undefined
  /\ Resp.req.body.max_tokens # Undefined
  /\ Truthy(env.COHERE_API_KEY)
  /\ Resp.status = 400

\* The extension of a file name: the text after its last ".", lower-cased;
\* none when the name has no ".".
Extension(name) ==
  IF Dots(name) = {} THEN <<>> ELSE toLowerCase(SplitPop(name))

\* C2: an upload whose file extension is not one of the thirteen allowed
\* ones, or whose MIME type is not an allowed one, is answered with an error
\* and makes no storage call.
C2_DisallowedNeverStored ==
  LET Disallowed(f) ==
        Extension(f.originalname) \notin allowedTypes \/ ~allowedTypesTest(f.mimetype)
  IN  /\ Answers("upload") /\ Resp.req.files # <<>> /\ Disallowed(Resp.req.files[1])
           => Resp.status >= 400 /\ Resp.log = <<>>
      /\ \A r \in Reqs :
           slot[r].pc \in {"upload.save", "upload.sign"}
             => ~Disallowed(slot[r].req.files[1])

\* C3: a storage request answered with an error has changed nothing in the
\* bucket: none of its calls wrote or deleted an object.
C3_AllOrNothing ==
  Responding /\ Resp.status >= 400
    => \A i \in DOMAIN Resp.log :
         ~(Resp.log[i].op \in {"save", "delete"} /\ Resp.log[i].result = "ok")

\* C4 as claimed: once a DELETE of a name has succeeded and no upload has
\* written the name since, every later DELETE of it is answered 404, and
\* every later metadata request makes no existence probe and is answered
\* with the failure the storage client raises for the missing object.
C4_RepeatDeleteIs404 ==
  Responding /\ Resp.follows
    => /\ HandlerOf(Resp) = "delete"
            => Resp.status = 404 /\ Resp.body.error = "File not found"
       /\ HandlerOf(Resp) = "metadata"
            => /\ CallsOf(Resp, "exists") = {}
               /\ Resp.status = 500
               /\ Resp.body.error = "Failed to get file metadata"
               /\ Resp.body.message = "No such object"

\* C4 amended: the later DELETE is answered 404 when its existence probe
\* answers and 500 when the probe itself fails; it never calls delete and
\* never answers 200.  The metadata part is as claimed.
C4_RepeatDeleteIs404OrProbeFailure ==
  Responding /\ Resp.follows
    => /\ HandlerOf(Resp) = "delete"
            => LET name == ParamOf(Resp.req.path)
               IN  \/ /\ Resp.status = 404
                      /\ Resp.body.error = "File not found"
                      /\ Resp.log = <<Call("exists", name, 0, "false")>>
                   \/ /\ Resp.status = 500
                      /\ Resp.log = <<Call("exists", name, 0, "raise")>>
       /\ HandlerOf(Resp) = "metadata"
            => /\ CallsOf(Resp, "exists") = {}
               /\ Resp.status = 500
               /\ Resp.body.error = "Failed to get file metadata"
               /\ Resp.body.message = "No such object"

\* C4 witness: a DELETE that follows a successful DELETE of the same name is
\* answered 404.
C4_Witness ==
  /\ Answers("delete") /\ Resp.follows
  /\ Resp.status = 404
  /\ deleted = <<ParamOf(Resp.req.path)>>

\* C5: every response body, of every route, success or error, has a
\* timestamp field.
C5_EveryBodyHasTimestamp ==
  Responding => "timestamp" \in DOMAIN Resp.body

Unset == {Undefined, JsString("")}

\* C6: on the generation and storage routes the status is fixed by the kind
\* of outcome: 400 for a missing prompt or file, 500 for an unset credential
\* or bucket name, 404 when the existence probe finds no object, 500 when a
\* vendor call fails, 200 for every success; an upload that multer refuses
\* gets 500, so no other status occurs.
C6_StatusByOutcome ==
  Responding /\ HandlerOf(Resp) \in {"inference", "upload", "download", "files",
                                     "delete", "metadata"}
    => LET h == HandlerOf(Resp)
           log == Resp.log
           missingPrompt == h = "inference" /\ Resp.req.body.prompt \in Unset
           missingFile == h = "upload" /\ Resp.req.files = <<>>
           refused == h = "upload" /\ Resp.req.files # <<>>
                        /\ UploadSingle(Resp.req.files) # "file"
           unsetKey == h = "inference" /\ env.COHERE_API_KEY \in Unset
           unsetBucket == h # "inference" /\ env.GOOGLE_CLOUD_BUCKET_NAME \in Unset
           raised == \E i \in DOMAIN log : log[i].result = "raise"
           absent == \E i \in DOMAIN log : log[i].op = "exists" /\ log[i].result = "false"
           expected == IF missingPrompt \/ missingFile THEN 400
                       ELSE IF refused \/ unsetKey \/ unsetBucket THEN 500
                       ELSE IF raised THEN 500
                       ELSE IF absent THEN 404
                       ELSE 200
       IN  /\ Resp.status = expected
           /\ Resp.status = 200
                <=> log # <<>> /\ log[Len(log)].result = "ok" /\ "success" \in DOMAIN Resp.body

\* C6 witness: the upload that creates an object is answered 200.
C6_Witness ==
  /\ Answers("upload") /\ Resp.status = 200
  /\ Resp.log[1] = Call("save", Resp.body.fileName, 0, "ok")
  /\ Resp.body.fileName \in DOMAIN bucket

\* A download asks for a signed link only as its second call, after its
\* existence probe of the same name answered true.
SignedOnlyAfterProbe ==
  /\ Answers("download")
       => \A i \in CallsOf(Resp, "getSignedUrl") :
            i = 2 /\ Resp.log[1] = Call("exists", ParamOf(Resp.req.path), 0, "true")
  /\ \A r \in Reqs :
       slot[r].pc = "download.sign"
         => slot[r].log = <<Call("exists", slot[r].fileName, 0, "true")>>

\* C7 as claimed: with the bucket name configured, a download-link request
\* for a name that is not in the bucket is answered 404 and asks for no signed
\* link; a signed link is asked for only after the probe answered true.
C7_AbsentIs404 ==
  /\ Answers("download") /\ env.GOOGLE_CLOUD_BUCKET_NAME \notin Unset
       /\ ParamOf(Resp.req.path) \notin DOMAIN bucket
       => /\ Resp.status = 404
          /\ Resp.body.error = "File not found"
          /\ CallsOf(Resp, "getSignedUrl") = {}
  /\ SignedOnlyAfterProbe

\* C7 amended: that request is answered 404, or 500 when the existence probe
\* itself fails; in both cases it asks for no signed link.
C7_AbsentIs404OrProbeFailure ==
  /\ Answers("download") /\ env.GOOGLE_CLOUD_BUCKET_NAME \notin Unset
       /\ ParamOf(Resp.req.path) \notin DOMAIN bucket
       => LET name == ParamOf(Resp.req.path)
          IN  \/ /\ Resp.status = 404
                 /\ Resp.body.error = "File not found"
                 /\ Resp.log = <<Call("exists", name, 0, "false")>>
              \/ /\ Resp.status = 500
                 /\ Resp.log = <<Call("exists", name, 0, "raise")>>
  /\ SignedOnlyAfterProbe

\* C7 witness: a download-link request for a name that was never uploaded is
\* answered 404.
C7_Witness ==
  /\ Answers("download")
  /\ ParamOf(Resp.req.path) = NoSuchName
  /\ Resp.status = 404
  /\ Resp.log = <<Call("exists", NoSuchName, 0, "false")>>

Range(f) == {f[i] : i \in DOMAIN f}

\* The eleven routes the README documents.
DocumentedRoutes ==
  { <<"GET", Root>>,
    <<"GET", P2("api", "health")>>,
    <<"GET", P2("api", "models")>>,
    <<"GET", P2("api", "docs")>>,
    <<"POST", P2("api", "data")>>,
    <<"POST", P3("api", "cohere", "inference")>>,
    <<"POST", P3("api", "gcs", "upload")>>,
    <<"GET", P3("api", "gcs", "download") \o <<Param>> >>,
    <<"GET", P3("api", "gcs", "files")>>,
    <<"DELETE", P3("api", "gcs", "files") \o <<Param>> >>,
    <<"GET", P3("api", "gcs", "files") \o <<Param, <<"metadata">> >> >> }

\* C8: a request that matches no registered route is answered 404 with an
\* available_endpoints list that holds all eleven documented routes, and every
\* route of that list is one the server dispatches.
C8_NotFoundListsDocumentedRoutes ==
  Answers("notFound")
    => /\ Resp.status = 404
       /\ DocumentedRoutes \subseteq Range(Resp.body.available_endpoints)
       /\ \A e \in Range(Resp.body.available_endpoints) :
            \E i \in DOMAIN Routes(program) :
              Routes(program)[i].method = e[1] /\ Routes(program)[i].pattern = e[2]

Letter ==
  {"a", "b", "c", "d", "e", "f", "g", "h", "i", "j", "k", "l", "m", "n", "o", "p",
   "q", "r", "s", "t", "u", "v", "w", "x", "y", "z"}
Alphanumeric == Digit \cup Letter \cup Upper

\* name is <digits>-<non-empty alphanumeric token>.<ext>
GeneratedForm(name, ext) ==
  \E i, j \in 1..Len(name) :
    /\ 1 < i /\ i + 1 < j
    /\ name[i] = "-" /\ name[j] = "."
    /\ \A k \in 1..(i - 1) : name[k] \in Digit
    /\ \A k \in (i + 1)..(j - 1) : name[k] \in Alphanumeric
    /\ Substring(name, j) = ext

\* C9: a successful upload returns a fileName of the form
\* <epoch milliseconds>-<non-empty alphanumeric token>.<extension of the
\* original name>, different from the original name, and writes exactly one
\* object, under that fileName, with the original name in its custom metadata.
C9_GeneratedName ==
  Answers("upload") /\ Resp.status = 200
    => LET fileName == Resp.body.fileName
           originalName == Resp.req.files[1].originalname
       IN  /\ GeneratedForm(fileName, SplitPop(originalName))
           /\ fileName # originalName
           /\ CallsOf(Resp, "save") = {1}
           /\ Resp.log[1] = Call("save", fileName, 0, "ok")
           /\ fileName \in DOMAIN bucket
           /\ bucket[fileName].metadata # <<>>
           /\ bucket[fileName].metadata[1].originalName = originalName

\* C10: the link of a successful upload is asked for with an expiry 24 hours
\* after the moment of asking, that of a successful download with one 1 hour
\* after, and the expiresAt returned is the expiry that was asked for.
C10_ExpiresAtIsTheLinkExpiry ==
  /\ Answers("upload") /\ Resp.status = 200
       => /\ Resp.log[2].op = "getSignedUrl"
          /\ Resp.log[2].arg - DAY_MS \in 0..clock
          /\ Resp.body.expiresAt = toISOString(Resp.log[2].arg)
  /\ Answers("download") /\ Resp.status = 200
       => /\ Resp.log[2].op = "getSignedUrl"
          /\ Resp.log[2].arg - HOUR_MS \in 0..clock
          /\ Resp.body.expiresAt = toISOString(Resp.log[2].arg)

(***************************************************************************)
(* C11: the list                                                           *)
(***************************************************************************)
\* The original-name metadata of a stored object, <<>> when it has none.
StoredOriginalName(obj) ==
  IF obj.metadata = <<>> THEN <<>> ELSE obj.metadata[1].originalName

\* C11: a successful list request returns one descriptor per object of the
\* bucket and a count equal to the number of descriptors (files = <<>> and
\* count = 0 for an empty bucket); a descriptor's originalName is the object's
\* original-name metadata when it has one and the generated name otherwise.
C11_ListDescribesBucket ==
  (Answers("files") /\ Resp.status = 200) =>
    LET files == Resp.body.files
    IN  /\ Len(files) = Cardinality(DOMAIN bucket)
        /\ Resp.body.count = Len(files)
        /\ (bucket = <<>>) => (files = <<>> /\ Resp.body.count = 0)
        /\ \A n \in DOMAIN bucket :
             \E i \in DOMAIN files :
               /\ files[i].name = n
               /\ files[i].originalName =
                    IF StoredOriginalName(bucket[n]) # <<>>
                    THEN StoredOriginalName(bucket[n])
                    ELSE n

\* C11 witness: a list answered 200 with the descriptor of an uploaded object,
\* whose original name is not its generated name.
C11_Witness ==
  /\ Answers("files")
  /\ Resp.status = 200
  /\ Resp.body.count = 1
  /\ Resp.body.files[1].originalName # Resp.body.files[1].name


(***************************************************************************)
(* C12: health and the credential                                          *)
(***************************************************************************)
NonEmpty(v) == v \notin Unset

KeyNotConfigured == [error |-> "Cohere API key not configured"]

\* C12: GET /api/health reports the generation service "configured" exactly
\* when the credential environment value is non-empty, whatever the value;
\* and an inference request with a prompt is answered with the
\* credential-not-configured error exactly when health, at the same
\* configuration, reports "not configured".
C12_HealthTellsTheCredential ==
  /\ Answers("health") =>
       /\ Resp.body.services.cohere \in {"configured", "not configured"}
       /\ (Resp.body.services.cohere = "configured")
            <=> NonEmpty(env.COHERE_API_KEY)
  /\ (Answers("inference") /\ NonEmpty(Resp.req.body.prompt)) =>
       ((Resp.status = 500 /\ Resp.body = KeyNotConfigured)
         <=> ~NonEmpty(env.COHERE_API_KEY))

\* C12 witness: with the credential set to the empty string, a request with a
\* prompt answered with the credential-not-configured error.
C12_Witness ==
  /\ Answers("inference")
  /\ NonEmpty(Resp.req.body.prompt)
  /\ env.COHERE_API_KEY = JsString("")
  /\ Resp.body = KeyNotConfigured

\* Health answering "configured" for a credential that is the string "0".
C12_HealthWitness ==
  /\ Answers("health")
  /\ env.COHERE_API_KEY = JsString("0")
  /\ Resp.body.services.cohere = "configured"

(***************************************************************************)
(* C13: two DELETE requests for one object                                 *)
(***************************************************************************)
\* The DELETE being answered overlapped a DELETE of the same name that has
\* succeeded: its own probe found the object, and the object is gone since.
LostTheRace ==
  /\ Answers("delete")
  /\ Resp.status # 200
  /\ Resp.log # <<>>
  /\ Resp.log[1] = Call("exists", ParamOf(Resp.req.path), 0, "true")
  /\ deleted = <<ParamOf(Resp.req.path)>>
  /\ ParamOf(Resp.req.path) \notin DOMAIN bucket

\* C13: of two concurrent DELETE requests for the same object that exists,
\* in any interleaving, one is answered 200 and the other 404 "File not
\* found", as when one runs after the other: a DELETE answered 200 has
\* removed the object, and the DELETE that lost the race is answered 404.
C13_ConcurrentDeletesAsSequential ==
  /\ (Answers("delete") /\ Resp.status = 200) =>
       /\ deleted = <<ParamOf(Resp.req.path)>>
       /\ ParamOf(Resp.req.path) \notin DOMAIN bucket
  /\ LostTheRace =>
       /\ Resp.status = 404
       /\ Resp.body.error = "File not found"

====
